---- MODULE Spec2Model ----
(***************************************************************************)
(* Model of tokenize (src/src/tokenizer.rs).                               *)
(*                                                                         *)
(* A character is a one-character string, a line and a token text are      *)
(* sequences of characters.  The input is revealed as the loops consume    *)
(* it: the iterator of `for line in lines` either yields the next line or  *)
(* ends, and `line.chars()` either yields the next character or ends.      *)
(* `lines` holds the lines consumed so far and `line` the characters       *)
(* consumed of the current line, so when the function returns `lines` is   *)
(* the whole argument.                                                     *)
(***************************************************************************)
EXTENDS Integers, Sequences, FiniteSets, TLC

\* ---- bounds ------------------------------------------------------------
MaxLines == 2        \* number of input lines
MaxChars == 7        \* number of characters of the text the lines are split
                     \* from, the line breaks between the lines included

\* ---- characters --------------------------------------------------------
Quote == "\""

special_chars ==
    { "(", ")", "{", "}", "[", "]", "<", ">", "!", "|", "&",
      ",", ".", ":", ";", "+", "*", "/", "-", "=", "^" }

\* char::is_whitespace holds of the Unicode White_Space characters; the space
\* and the tab stand for them
WhiteSpace == { " ", "\t" }

\* variant: only the space character counts as whitespace
is_whitespace_SpaceOnly(ch) == ch = " "

is_whitespace(ch) == ch \in WhiteSpace

\* the characters the input is drawn from: a word character, a whitespace
\* character, a separator and the quote
Alphabet == { "a", " ", "/", Quote }

\* ---- Phase A: one line --------------------------------------------------
\* the per-line state at the top of the character loop
LineInit == [ tokens |-> << >>, token |-> << >>, is_string |-> FALSE ]

\* variant: the push without the !token.is_empty() guard
PushToken_Unguarded(tokens, token) == Append(tokens, token)

\* tokens.push(token) guarded by !token.is_empty()
PushToken(tokens, token) ==
    IF token # << >> THEN Append(tokens, token) ELSE tokens

\* variant: the quote is also appended to the accumulator
ScanChar_KeepQuote(st, ch) ==
    IF ch = Quote
    THEN [ st EXCEPT !.is_string = ~ st.is_string,
                     !.token = Append(st.token, ch) ]
    ELSE IF ~ st.is_string
         THEN IF is_whitespace(ch)
              THEN [ st EXCEPT !.tokens = PushToken(st.tokens, st.token),
                               !.token = << >> ]
              ELSE IF ch \in special_chars
                   THEN [ st EXCEPT
                            !.tokens = Append(PushToken(st.tokens, st.token),
                                              << ch >>),
                            !.token = << >> ]
                   ELSE [ st EXCEPT !.token = Append(st.token, ch) ]
         ELSE [ st EXCEPT !.token = Append(st.token, ch) ]

\* variant: a separator is pushed together with the accumulated text
ScanChar_MergeSeparator(st, ch) ==
    IF ch = Quote
    THEN [ st EXCEPT !.is_string = ~ st.is_string ]
    ELSE IF ~ st.is_string
         THEN IF is_whitespace(ch)
              THEN [ st EXCEPT !.tokens = PushToken(st.tokens, st.token),
                               !.token = << >> ]
              ELSE IF ch \in special_chars
                   THEN [ st EXCEPT
                            !.tokens = Append(st.tokens, Append(st.token, ch)),
                            !.token = << >> ]
                   ELSE [ st EXCEPT !.token = Append(st.token, ch) ]
         ELSE [ st EXCEPT !.token = Append(st.token, ch) ]

\* the body of `for ch in line.chars()`
ScanChar(st, ch) ==
    IF ch = Quote
    THEN [ st EXCEPT !.is_string = ~ st.is_string ]
    ELSE IF ~ st.is_string
         THEN IF is_whitespace(ch)
              THEN [ st EXCEPT !.tokens = PushToken(st.tokens, st.token),
                               !.token = << >> ]
              ELSE IF ch \in special_chars
                   THEN [ st EXCEPT
                            !.tokens = Append(PushToken(st.tokens, st.token),
                                              << ch >>),
                            !.token = << >> ]
                   ELSE [ st EXCEPT !.token = Append(st.token, ch) ]
         ELSE [ st EXCEPT !.token = Append(st.token, ch) ]

\* the flush after the character loop: the line's token vector
PushLast(st) == PushToken(st.tokens, st.token)

RECURSIVE ScanChars(_, _)
ScanChars(st, s) ==
    IF s = << >> THEN st ELSE ScanChars(ScanChar(st, Head(s)), Tail(s))

\* one iteration of `for line in lines`: the token vector pushed for a line
TokeniseLine(s) == PushLast(ScanChars(LineInit, s))

\* ---- Phase B: one line --------------------------------------------------
Slash == << "/" >>

\* line.len() - 1 on usize: defined only when line.len() >= 1
ScanBound(n) == [ ok |-> n >= 1, val |-> n - 1 ]

\* variant: line.truncate(i + 1), which keeps the first "/" of the pair
RECURSIVE ScanPairs_KeepSlash(_, _, _)
ScanPairs_KeepSlash(l, i, bound) ==
    IF i >= bound
    THEN [ ok |-> TRUE, line |-> l ]
    ELSE IF i + 1 >= Len(l)
         THEN [ ok |-> FALSE, line |-> l ]
         ELSE IF l[i + 1] = Slash /\ l[i + 2] = Slash
              THEN [ ok |-> TRUE, line |-> SubSeq(l, 1, i + 1) ]
              ELSE ScanPairs_KeepSlash(l, i + 1, bound)

\* `for i in 0..bound`, indices zero-based as in the source; line[i] and
\* line[i+1] panic when the index is not below line.len()
RECURSIVE ScanPairs(_, _, _)
ScanPairs(l, i, bound) ==
    IF i >= bound
    THEN [ ok |-> TRUE, line |-> l ]
    ELSE IF i + 1 >= Len(l)
         THEN [ ok |-> FALSE, line |-> l ]
         ELSE IF l[i + 1] = Slash /\ l[i + 2] = Slash
              THEN [ ok |-> TRUE, line |-> SubSeq(l, 1, i) ]
              ELSE ScanPairs(l, i + 1, bound)

\* variant: the scan without the `line.len() > 1` guard
StripComment_NoGuard(l) ==
    IF ScanBound(Len(l)).ok
    THEN ScanPairs(l, 0, ScanBound(Len(l)).val)
    ELSE [ ok |-> FALSE, line |-> l ]

\* the body of `for line_index in 0..tokenised_lines.len()`
StripComment(l) ==
    IF Len(l) > 1
    THEN IF ScanBound(Len(l)).ok
         THEN ScanPairs(l, 0, ScanBound(Len(l)).val)
         ELSE [ ok |-> FALSE, line |-> l ]
    ELSE [ ok |-> TRUE, line |-> l ]

\* ---- Phase C: one line --------------------------------------------------
\* variant: positions counted from one
TokensOfLine_OneBased(l, line_number) ==
    [ k \in 1 .. Len(l) |->
        [ token |-> l[k], line |-> line_number, token_number |-> k ] ]

\* the body of `for (line_number, line) in tokenised_lines.iter().enumerate()`
TokensOfLine(l, line_number) ==
    [ k \in 1 .. Len(l) |->
        [ token |-> l[k], line |-> line_number, token_number |-> k - 1 ] ]

\* ---- the function as a whole, on an argument that raises no panic -------
RECURSIVE FlattenFrom(_, _)
FlattenFrom(tl, line_number) ==
    IF line_number >= Len(tl) THEN << >>
    ELSE TokensOfLine(tl[line_number + 1], line_number)
           \o FlattenFrom(tl, line_number + 1)

tokenize(ls) ==
    FlattenFrom([ i \in 1 .. Len(ls) |-> StripComment(TokeniseLine(ls[i])).line ],
                0)

\* ---- state --------------------------------------------------------------
VARIABLES
    lines,            \* the lines consumed so far
    line,             \* the characters consumed of the current line
    tokens,           \* the token vector of the current line
    token,            \* the accumulator
    is_string,        \* inside a string literal
    tokenised_lines,  \* one token vector per line
    line_index,       \* loop index of Phase B and of Phase C
    out_tokens,       \* the returned vector of Token
    pc                \* "lines", "chars", "strip", "flatten", "done", "panic"

vars == << lines, line, tokens, token, is_string, tokenised_lines,
           line_index, out_tokens, pc >>

\* the length of the text consumed so far: the characters of the complete
\* lines, each followed by its line break
RECURSIVE TotalLen(_)
TotalLen(ls) ==
    IF ls = << >> THEN 0 ELSE Len(Head(ls)) + 1 + TotalLen(Tail(ls))

Init ==
    /\ lines = << >>
    /\ line = << >>
    /\ tokens = << >>
    /\ token = << >>
    /\ is_string = FALSE
    /\ tokenised_lines = << >>
    /\ line_index = 0
    /\ out_tokens = << >>
    /\ pc = "lines"

\* variant: is_string declared outside the loop over the lines
StartLine_CarryString ==
    /\ pc = "lines"
    /\ Len(lines) < MaxLines
    /\ TotalLen(lines) <= MaxChars
    /\ pc' = "chars"
    /\ line' = << >>
    /\ tokens' = LineInit.tokens
    /\ token' = LineInit.token
    /\ UNCHANGED << lines, is_string, tokenised_lines, line_index, out_tokens >>

\* `for line in lines` yields a line: fresh per-line state
StartLine ==
    /\ pc = "lines"
    /\ Len(lines) < MaxLines
    /\ TotalLen(lines) <= MaxChars
    /\ pc' = "chars"
    /\ line' = << >>
    /\ tokens' = LineInit.tokens
    /\ token' = LineInit.token
    /\ is_string' = LineInit.is_string
    /\ UNCHANGED << lines, tokenised_lines, line_index, out_tokens >>

\* `line.chars()` yields a character
NextChar ==
    /\ pc = "chars"
    /\ TotalLen(lines) + Len(line) < MaxChars
    /\ \E ch \in Alphabet :
         LET st == ScanChar([ tokens |-> tokens, token |-> token,
                              is_string |-> is_string ], ch)
         IN  /\ line' = Append(line, ch)
             /\ tokens' = st.tokens
             /\ token' = st.token
             /\ is_string' = st.is_string
    /\ UNCHANGED << lines, tokenised_lines, line_index, out_tokens, pc >>

\* `line.chars()` ends: flush the accumulator and push the line; the
\* per-line variables are dead until the next iteration declares them anew
EndLine ==
    /\ pc = "chars"
    /\ tokenised_lines' =
         Append(tokenised_lines,
                PushLast([ tokens |-> tokens, token |-> token,
                           is_string |-> is_string ]))
    /\ lines' = Append(lines, line)
    /\ line' = << >>
    /\ pc' = "lines"
    /\ UNCHANGED << tokens, token, is_string, line_index, out_tokens >>

\* `for line in lines` ends
EndLines ==
    /\ pc = "lines"
    /\ pc' = "strip"
    /\ line_index' = 0
    /\ UNCHANGED << lines, line, tokens, token, is_string, tokenised_lines,
                    out_tokens >>

\* one iteration of the comment-stripping loop
StripLine ==
    /\ pc = "strip"
    /\ line_index < Len(tokenised_lines)
    /\ LET r == StripComment(tokenised_lines[line_index + 1])
       IN  IF r.ok
           THEN /\ tokenised_lines' =
                     [ tokenised_lines EXCEPT ![line_index + 1] = r.line ]
                /\ line_index' = line_index + 1
                /\ pc' = "strip"
           ELSE /\ pc' = "panic"
                /\ UNCHANGED << tokenised_lines, line_index >>
    /\ UNCHANGED << lines, line, tokens, token, is_string, out_tokens >>

\* the comment-stripping loop ends
EndStrip ==
    /\ pc = "strip"
    /\ line_index >= Len(tokenised_lines)
    /\ pc' = "flatten"
    /\ line_index' = 0
    /\ UNCHANGED << lines, line, tokens, token, is_string, tokenised_lines,
                    out_tokens >>

\* one iteration of the outer flattening loop
FlattenLine ==
    /\ pc = "flatten"
    /\ line_index < Len(tokenised_lines)
    /\ out_tokens' =
         out_tokens \o TokensOfLine(tokenised_lines[line_index + 1], line_index)
    /\ line_index' = line_index + 1
    /\ UNCHANGED << lines, line, tokens, token, is_string, tokenised_lines, pc >>

\* return tokens
Return ==
    /\ pc = "flatten"
    /\ line_index >= Len(tokenised_lines)
    /\ pc' = "done"
    /\ UNCHANGED << lines, line, tokens, token, is_string, tokenised_lines,
                    line_index, out_tokens >>

Next ==
    \/ StartLine
    \/ NextChar
    \/ EndLine
    \/ EndLines
    \/ StripLine
    \/ EndStrip
    \/ FlattenLine
    \/ Return

Spec == Init /\ [][Next]_vars

\* every loop of the function is over a finite vector: each step is taken
FairSpec == Spec /\ WF_vars(Next)

TypeOK ==
    /\ pc \in { "lines", "chars", "strip", "flatten", "done", "panic" }
    /\ Len(lines) <= MaxLines
    /\ is_string \in BOOLEAN
    /\ line_index \in 0 .. MaxLines

\* ---- vocabulary of the properties ---------------------------------------
Range(s) == { s[k] : k \in 1 .. Len(s) }

Min(S) == CHOOSE m \in S : \A n \in S : m <= n

\* the tokens of the returned vector that carry line number i, in order
LineGroup(i) == SelectSeq(out_tokens, LAMBDA t : t.line = i)

\* the texts of a sequence of Token
Texts(ts) == [ k \in 1 .. Len(ts) |-> ts[k].token ]

\* the number of quote characters among the first p characters of s
QuotesBefore(s, p) == Cardinality({ k \in 1 .. p : s[k] = Quote })

\* the gap after the first p characters of s is outside every string literal
Outside(s, p) == QuotesBefore(s, p) % 2 = 0

\* s with the sequence w inserted after its first p characters
Insert(s, p, w) == SubSeq(s, 1, p) \o w \o SubSeq(s, p + 1, Len(s))

\* the indices at which a token vector has two consecutive "/" tokens
PairAt(l) == { k \in 1 .. Len(l) - 1 : l[k] = Slash /\ l[k + 1] = Slash }

\* the tokens strictly before the first pair of consecutive "/" tokens
BeforeFirstPair(l) ==
    IF PairAt(l) = {} THEN l ELSE SubSeq(l, 1, Min(PairAt(l)) - 1)

\* C1: the returned vector is, line after line in ascending order, the
\* surviving tokens of each line, each with line = the zero-based index of
\* its input line and token_number = 0, 1, 2, ... in emission order.
C1_Ordering ==
    pc = "done" =>
      /\ \A k \in 1 .. Len(out_tokens) :
           out_tokens[k].line \in 0 .. Len(lines) - 1
      /\ \A k \in 1 .. Len(out_tokens) - 1 :
           out_tokens[k].line <= out_tokens[k + 1].line
      /\ \A i \in 0 .. Len(lines) - 1 :
           LET g == LineGroup(i)
           IN  /\ Texts(g) = tokenised_lines[i + 1]
               /\ \A k \in 1 .. Len(g) : g[k].token_number = k - 1

\* an earlier line that contributes no token, then a line with two tokens
C1_Witness ==
    /\ pc = "done"
    /\ Len(lines) = 2
    /\ tokenised_lines[1] = << >>
    /\ Len(out_tokens) >= 2
    /\ out_tokens[2].line = 1
    /\ out_tokens[2].token_number = 1

\* C3: no line of the returned vector has two adjacent "/" tokens, and the
\* tokens returned for a line are exactly the Phase A tokens of that line
\* strictly before the first pair of consecutive "/" tokens.
C3_CommentTruncation ==
    pc = "done" =>
      /\ \A k \in 1 .. Len(out_tokens) - 1 :
           ~ ( /\ out_tokens[k].line = out_tokens[k + 1].line
               /\ out_tokens[k].token = Slash
               /\ out_tokens[k + 1].token = Slash )
      /\ \A i \in 1 .. Len(lines) :
           Texts(LineGroup(i - 1)) = BeforeFirstPair(TokeniseLine(lines[i]))

\* a line whose Phase A tokens are [.., "/", "/", ..] with a token on both
\* sides of the pair, and a line that keeps a single "/"
C3_Witness ==
    /\ pc = "done"
    /\ Len(lines) = 2
    /\ LET l == TokeniseLine(lines[1])
       IN  /\ PairAt(l) # {}
           /\ Min(PairAt(l)) > 1
           /\ Min(PairAt(l)) + 1 < Len(l)
    /\ Texts(LineGroup(1)) = << << "a" >>, Slash >>

\* C7: tokenize raises no panic (no index outside a token vector, no
\* underflow of the scan bound) and returns.
C7_Total == [](pc # "panic") /\ <>(pc = "done")

\* returned on an empty line followed by a line with an odd number of quotes
C7_Witness ==
    /\ pc = "done"
    /\ Len(lines) = 2
    /\ lines[1] = << >>
    /\ QuotesBefore(lines[2], Len(lines[2])) % 2 = 1
    /\ Len(tokenised_lines[2]) = 1

\* C9: the quote character is in the text of no token.
C9_NoQuote ==
    /\ Quote \notin Range(token)
    /\ \A k \in 1 .. Len(tokens) : Quote \notin Range(tokens[k])
    /\ \A k \in 1 .. Len(out_tokens) : Quote \notin Range(out_tokens[k].token)

\* returned on a line with a quoted literal that yields a token
C9_Witness ==
    /\ pc = "done"
    /\ Len(lines) = 1
    /\ lines[1] = << Quote, "a", Quote >>
    /\ Texts(out_tokens) = << << "a" >> >>

\* C10: no returned token has empty text.
C10_NoEmptyToken ==
    \A k \in 1 .. Len(out_tokens) : out_tokens[k].token # << >>

\* returned on a line with an empty literal and a run of whitespace
C10_Witness ==
    /\ pc = "done"
    /\ Len(lines) = 1
    /\ lines[1] = << "a", " ", " ", Quote, Quote, " ", "a" >>
    /\ Texts(out_tokens) = << << "a" >>, << "a" >> >>
    /\ out_tokens[2].token_number = 1

\* the gap after the first p characters of s lies between two tokens of the
\* tokenisation of s: it is outside every string literal and the tokens of s
\* are the tokens of what precedes it followed by the tokens of what follows
TokenGap(s, p) ==
    /\ Outside(s, p)
    /\ TokeniseLine(s) =
         TokeniseLine(SubSeq(s, 1, p)) \o TokeniseLine(SubSeq(s, p + 1, Len(s)))

C6_SeparatorIsolation ==
    pc = "done" =>
      \A i \in 1 .. Len(lines) :
        LET s == lines[i]
        IN  \A p \in 1 .. Len(s) :
              (s[p] \in special_chars /\ Outside(s, p - 1)) =>
                TokeniseLine(s) =
                  TokeniseLine(SubSeq(s, 1, p - 1))
                    \o << << s[p] >> >>
                    \o TokeniseLine(SubSeq(s, p + 1, Len(s)))

\* returned on a line with a separator between two words
C6_Witness ==
    /\ pc = "done"
    /\ Len(lines) = 1
    /\ lines[1] = << "a", "a", "/", "a" >>
    /\ Texts(out_tokens) = << << "a", "a" >>, Slash, << "a" >> >>

\* C8: the texts and positions of the tokens returned for a line are those
\* returned when that line is the whole input.
C8_LineIndependence ==
    pc = "done" =>
      \A i \in 1 .. Len(lines) :
        LET g == LineGroup(i - 1)
            alone == tokenize(<< lines[i] >>)
        IN  /\ Len(g) = Len(alone)
            /\ \A k \in 1 .. Len(g) :
                 /\ g[k].token = alone[k].token
                 /\ g[k].token_number = alone[k].token_number

\* returned on a first line with an unterminated quote, whose remainder is
\* one token, and a second line split at its whitespace
C8_Witness ==
    /\ pc = "done"
    /\ lines = << << Quote, "a", " " >>, << "a", " ", "a" >> >>
    /\ Texts(LineGroup(0)) = << << "a", " " >> >>
    /\ Texts(LineGroup(1)) = << << "a" >>, << "a" >> >>

\* C2: the content of every string literal (an opening quote and the next
\* quote of the line, with something between them) is one token of the
\* line's Phase A tokens, whatever stands before and after the quotes: it
\* is the token that follows the tokens of what precedes the opening quote.
C2_LiteralIsOneToken ==
    pc = "done" =>
      \A i \in 1 .. Len(lines) :
        LET s == lines[i]
        IN  \A p \in 1 .. Len(s) : \A q \in p + 2 .. Len(s) :
              ( /\ s[p] = Quote
                /\ s[q] = Quote
                /\ Outside(s, p - 1)
                /\ QuotesBefore(s, q) = QuotesBefore(s, p) + 1 ) =>
                LET n == Len(TokeniseLine(SubSeq(s, 1, p - 1)))
                IN  /\ Len(TokeniseLine(s)) > n
                    /\ TokeniseLine(s)[n + 1] = SubSeq(s, p + 1, q - 1)

\* C4: on a line where every "/" character is inside a string literal
\* (after an opening quote and before its closing quote) no comment is cut:
\* every Phase A token of the line is returned.
C4_MaskingProtects ==
    pc = "done" =>
      \A i \in 1 .. Len(lines) :
        LET s == lines[i]
        IN  ( \A k \in 1 .. Len(s) :
                s[k] = "/" =>
                  /\ ~ Outside(s, k)
                  /\ \E q \in k + 1 .. Len(s) : s[q] = Quote ) =>
              Texts(LineGroup(i - 1)) = TokeniseLine(s)

====
